---- MODULE Spec2Model ----
(***************************************************************************)
(* Model of the two Streamlit dashboards of Gram-S/DatabaseFinal:          *)
(*   src/app_full_crud.py  monsters CRUD over PostgreSQL                   *)
(*   src/database.py       PTM / drug CRUD, the derived ptmdataset table   *)
(*                         and the derived ptm_correlation_matrix table    *)
(* A script run is split where the code issues separate statements that    *)
(* another page session can interleave with: the fetch that fills a        *)
(* selectbox, and the form handler that uses the selection.  For           *)
(* app_full_crud.py two page sessions are followed step by step; for       *)
(* database.py one session is followed step by step and the other sessions *)
(* appear through the DELETE statements they commit.  Whether the          *)
(* database answers is an input of each step (up; rd and wr for the        *)
(* fetches and the to_sql of tab2 and tab3): with up = FALSE every         *)
(* engine.connect(), engine.begin() and statement of the step raises.      *)
(*                                                                         *)
(*   Spec        either script, run by run (SpecApp, SpecDb: one script)   *)
(*   SpecConfig  the top of a run, for every environment                   *)
(*   SpecPool    the connection pool under concurrent sessions             *)
(*   SpecCorr    the correlation loop of tab3, for every frame of scores   *)
(*   SpecDerive  tab2 and tab3, for every draw of random.uniform           *)
(*                                                                         *)
(* Taken as given: ptms.ptm and drugs.drug are keys (a duplicate raises    *)
(* IntegrityError), monsters.id comes from a sequence, and the tables hold *)
(* what a committed statement left in them.                                *)
(***************************************************************************)
EXTENDS Integers, Sequences, FiniteSets, TLC

VARIABLES
    script,          \* the script this deployment runs (streamlit run <script>)
    ret,             \* the latest form handler: its helper and what it came to
    monsters,        \* table monsters (app_full_crud.py)
    nextId,          \* next value of the sequence behind monsters.id
    pc,              \* per session: position of the current script run
    view,            \* per session: ids of the DataFrame `monsters` (line 107)
    housesView,      \* per session: ids of the DataFrame `houses` (line 111)
    session_state,   \* per session: st.session_state flash keys
    ptms,            \* table ptms (database.py)
    drugs,           \* table drugs
    ptmdataset,      \* derived table ptmdataset
    ptm_correlation_matrix,  \* derived table ptm_correlation_matrix
    ptm,             \* per session: value of the text input "ptm*" (line 164)
    reaction_score,  \* the DataFrame `reaction_score` of tab3 (line 314)
    environ,         \* os.environ after load_dotenv(): the PG* variables
    stage,           \* how far the top of the script has run (lines 11-60)
    conn,            \* per session: its connection request to the engine
    waited           \* per session: seconds spent waiting for a pool slot

appVars == <<monsters, nextId, housesView>>

dbVars == <<ptms, drugs, ptmdataset, ptm_correlation_matrix, ptm>>

\* what a run of the forms reads and writes
pageVars == <<ret, pc, view, session_state, appVars, dbVars>>

\* what the forms leave alone: the frame of tab3 taken by itself, the start
\* of the script, the connection pool
startVars == <<reaction_score, environ, stage, conn, waited>>

vars == <<script, pageVars, startVars>>

(***************************************************************************)
(* Bounds of the model                                                     *)
(***************************************************************************)
MaxId == 2          \* the id sequence of monsters is followed up to here
RandomRes == 2      \* random.random() takes the values k / RandomRes, k < RandomRes

Sessions == {1, 2}  \* concurrent page sessions

(***************************************************************************)
(* Text: a str is a sequence of characters; str.strip() as Python does it  *)
(***************************************************************************)
Sp == " "

RECURSIVE lstrip(_)
lstrip(t) ==
    IF t # <<>> /\ Head(t) = Sp THEN lstrip(Tail(t)) ELSE t

RECURSIVE rstrip(_)
rstrip(t) ==
    IF t # <<>> /\ t[Len(t)] = Sp THEN rstrip(SubSeq(t, 1, Len(t) - 1)) ELSE t

strip(t) == rstrip(lstrip(t))

\* Python None where a str may stand
None == <<"None">>

\* Python truthiness of a str or None: the empty string and None are falsy
Truthy(t) == t # <<>> /\ t # None

\* `x or None` on a str
OrNone(t) == IF Truthy(t) THEN t ELSE None

\* the two scripts
App == "app_full_crud.py"

Db == "database.py"

\* the deployment runs script sc, and goes on running it
Running(sc) == script = sc /\ script' = sc /\ UNCHANGED startVars

\* what a helper call comes to
RetNone == "None"       \* the helper returned None
RetRec == "rec"         \* the helper returned the RETURNING row as a dict
Raised == "raised"      \* connect / execute raised and the helper let it pass

\* what a form handler comes to without calling its helper
Warned == "warning"     \* st.warning(...): the input was refused
TypeError == "TypeError"

\* ret: the helper the latest handler is about, and what it came to
Outcome(op, out) == [op |-> op, out |-> out]

\* no button was pressed in the run
NoCall == Outcome("", "")

(***************************************************************************)
(* The top of both scripts: configuration and engine                       *)
(* (app_full_crud.py lines 11-22, database.py lines 13-60)                  *)
(***************************************************************************)

Required == {"PGDATABASE", "PGUSER", "PGPASSWORD"}

Optional == {"PGHOST", "PGPORT", "PGSSLMODE"}

EnvNames == Required \cup Optional

\* what a variable of the environment holds when it is set: the empty
\* string, a text that is no number, a text that is a number
EnvValues == {<<>>, <<"v">>, <<"5">>}

Digits == {"0", "1", "2", "3", "4", "5", "6", "7", "8", "9"}

\* os.getenv(key, default); environ[key] = None stands for an unset key
getenv(key, default) == IF environ[key] = None THEN default ELSE environ[key]

PGHOST == getenv("PGHOST", <<"localhost">>)

PGPORT == getenv("PGPORT", <<"5", "4", "3", "2">>)

PGDATABASE == getenv("PGDATABASE", None)

PGUSER == getenv("PGUSER", None)

PGPASSWORD == getenv("PGPASSWORD", None)

\* read by database.py only
PGSSLMODE == getenv("PGSSLMODE", <<"require">>)

\* all([...]) and any([...]) on a list of str-or-None
all(xs) == \A i \in DOMAIN xs : Truthy(xs[i])

any(xs) == \E i \in DOMAIN xs : Truthy(xs[i])

\* the test `not any([...])` in the place of `not all([...])`
CredentialsPresent_any == any(<<PGDATABASE, PGUSER, PGPASSWORD>>)

\* `if not all([PGDATABASE, PGUSER, PGPASSWORD])` is not taken
CredentialsPresent == all(<<PGDATABASE, PGUSER, PGPASSWORD>>)

\* int(t) on the texts of EnvValues and the default: ValueError unless digits
IsInt(t) == t # <<>> /\ \A i \in DOMAIN t : t[i] \in Digits

\* positions of the top of a run
AtStart == "start"            \* before the configuration is read
Stopped == "st.stop()"        \* st.error(...) shown, st.stop() called
Checked == "checked"          \* past the credentials test
ValueError == "ValueError"    \* the URL could not be built
HasEngine == "engine"         \* `engine` is bound; no connection opened yet
Connected == "connected"      \* the first statement has been issued

\* lines 11-19 (13-22): the credentials test
ConfigCheck ==
    /\ stage = AtStart
    /\ stage' = IF CredentialsPresent THEN Checked ELSE Stopped
    /\ UNCHANGED <<script, pageVars, reaction_score, environ, conn, waited>>

\* lines 21-22 (24-60): the URL and the engine.  database.py calls
\* int(PGPORT); app_full_crud.py hands the text to create_engine, which
\* may or may not refuse a port that is no number.
CreateEngine ==
    /\ stage = Checked
    /\ IF IsInt(PGPORT)
       THEN stage' = HasEngine
       ELSE IF script = Db
       THEN stage' = ValueError
       ELSE stage' \in {HasEngine, ValueError}
    /\ UNCHANGED <<script, pageVars, reaction_score, environ, conn, waited>>

\* the first fetch of the run: a connection is opened, a statement issued
FirstStatement ==
    /\ stage = HasEngine
    /\ stage' = Connected
    /\ UNCHANGED <<script, pageVars, reaction_score, environ, conn, waited>>

NextConfig == ConfigCheck \/ CreateEngine \/ FirstStatement

(***************************************************************************)
(* The connection pool of the engine.  database.py builds one engine per   *)
(* process (st.cache_resource) with pool_size, max_overflow and            *)
(* pool_timeout given; app_full_crud.py builds an engine of its own in     *)
(* every run of every session.  A run holds one connection at a time.      *)
(***************************************************************************)
pool_size == 5

max_overflow == 0

pool_timeout == 5

MaxPoolSessions == 6      \* concurrent page sessions followed at the pool

PoolSessions == 1..MaxPoolSessions

Idle == "idle"
Waiting == "waiting"
Held == "held"
TimeoutError == "TimeoutError"

\* the sessions whose run holds a checked-out connection
Holders == {s \in PoolSessions : conn[s] = Held}

\* a pool with one slot of overflow
HasSlot_overflow(sc) ==
    IF sc = Db
    THEN Cardinality(Holders) < pool_size + max_overflow + 1
    ELSE TRUE

\* the engine the run of a session uses can hand out a connection: in
\* database.py the shared pool has a slot left; in app_full_crud.py the
\* engine was made by this run and has nothing checked out
HasSlot(sc) ==
    IF sc = Db
    THEN Cardinality(Holders) < pool_size + max_overflow
    ELSE TRUE

\* engine.connect() / engine.begin() is entered
Request(s) ==
    /\ conn[s] = Idle
    /\ conn' = [conn EXCEPT ![s] = IF HasSlot(script) THEN Held ELSE Waiting]
    /\ UNCHANGED <<script, pageVars, reaction_score, environ, stage, waited>>

\* the `with` block is left: the connection goes back to its pool
Release(s) ==
    /\ conn[s] = Held
    /\ conn' = [conn EXCEPT ![s] = Idle]
    /\ UNCHANGED <<script, pageVars, reaction_score, environ, stage, waited>>

\* a waiting request gets the slot that came free
Granted(s) ==
    /\ conn[s] = Waiting
    /\ HasSlot(script)
    /\ conn' = [conn EXCEPT ![s] = Held]
    /\ waited' = [waited EXCEPT ![s] = 0]
    /\ UNCHANGED <<script, pageVars, reaction_score, environ, stage>>

\* a second passes with no slot free
Tick ==
    /\ ~HasSlot(script)
    /\ \E s \in PoolSessions : conn[s] = Waiting
    /\ \A s \in PoolSessions : conn[s] = Waiting => waited[s] < pool_timeout
    /\ waited' = [s \in PoolSessions |->
                     IF conn[s] = Waiting THEN waited[s] + 1 ELSE waited[s]]
    /\ UNCHANGED <<script, pageVars, reaction_score, environ, stage, conn>>

\* pool_timeout seconds have passed with no slot free: the pool raises
TimedOut(s) ==
    /\ conn[s] = Waiting
    /\ ~HasSlot(script)
    /\ waited[s] = pool_timeout
    /\ conn' = [conn EXCEPT ![s] = TimeoutError]
    /\ waited' = [waited EXCEPT ![s] = 0]
    /\ UNCHANGED <<script, pageVars, reaction_score, environ, stage>>

\* the statement that could not get a connection is over (fetch_df returns
\* an empty frame, a write helper lets the exception pass)
GiveUp(s) ==
    /\ conn[s] = TimeoutError
    /\ conn' = [conn EXCEPT ![s] = Idle]
    /\ UNCHANGED <<script, pageVars, reaction_score, environ, stage, waited>>

NextPool ==
    \/ \E s \in PoolSessions : Request(s)
    \/ \E s \in PoolSessions : Release(s)
    \/ \E s \in PoolSessions : Granted(s)
    \/ Tick
    \/ \E s \in PoolSessions : TimedOut(s)
    \/ \E s \in PoolSessions : GiveUp(s)

\* the forms run with the configuration complete, the engine built and the
\* pool out of the picture
InitConfigured ==
    /\ environ = [k \in EnvNames |-> IF k = "PGPORT" THEN <<"5">> ELSE <<"v">>]
    /\ stage = Connected

InitPoolIdle ==
    /\ conn = [s \in PoolSessions |-> Idle]
    /\ waited = [s \in PoolSessions |-> 0]

InitStart ==
    /\ reaction_score = <<>>
    /\ InitConfigured
    /\ InitPoolIdle

(***************************************************************************)
(* src/app_full_crud.py                                                    *)
(***************************************************************************)

\* table haunted_houses: read, never written, by the script
haunted_houses == {1, 2}

\* sidebar widget "Row limit" (min 1, default 200)
RowLimits == {1, 200}

\* values typed and selected in the insert and update forms of monsters
MonsterForms ==
    { [name |-> <<Sp, "a", Sp>>, mtype |-> <<"g">>, scare |-> 1,  house |-> 1],
      [name |-> <<"b">>,         mtype |-> <<Sp>>,  scare |-> 10, house |-> 2],
      [name |-> <<Sp>>,          mtype |-> <<>>,    scare |-> 5,  house |-> 1] }

FlashKeys == {"just_inserted", "just_updated", "just_deleted"}

\* the value None of a flash key, and of a helper that returns no record
NoRec == [id |-> 0]

\* the value None of the House selectbox when it has no options
NoHouse == 0

MonsterRow(i, n, t, s, h) ==
    [id |-> i, name |-> n, monster_type |-> t, scare_level |-> s, house_id |-> h]

Ids(rows) == {r.id : r \in rows}

\* fetch_df: the rows of the query, or an empty DataFrame when it raises
fetch_df(up, rows) == IF up THEN rows ELSE {}

\* SELECT ... FROM monsters ORDER BY id LIMIT :lim
SelectMonsters(tbl, lim) ==
    {r \in tbl : Cardinality({q \in tbl : q.id < r.id}) < lim}

fetch_monsters(up, tbl, lim) == fetch_df(up, SelectMonsters(tbl, lim))

fetch_houses(up) == fetch_df(up, haunted_houses)

\* A write helper yields the table after it, the sequence after it, the tag
\* of what it returned (or Raised) and the record it returned.
HelperResult(tbl, nxt, out, rec) ==
    [tbl |-> tbl, nxt |-> nxt, out |-> out, rec |-> rec]

\* insert_monster binding :n and :t the wrong way round
insert_monster_swapped(up, tbl, nxt, n, t, s, h) ==
    IF ~up
    THEN HelperResult(tbl, nxt, Raised, NoRec)
    ELSE LET row == MonsterRow(nxt, t, n, s, h)
         IN  HelperResult(tbl \cup {row}, nxt + 1, RetRec, row)

\* INSERT INTO monsters(name, "type", scare_level, house_id) ... RETURNING ...
insert_monster(up, tbl, nxt, n, t, s, h) ==
    IF ~up
    THEN HelperResult(tbl, nxt, Raised, NoRec)
    ELSE LET row == MonsterRow(nxt, n, t, s, h)
         IN  HelperResult(tbl \cup {row}, nxt + 1, RetRec, row)

\* update_monster written as an upsert: an absent id is inserted
update_monster_upsert(up, tbl, nxt, mid, n, t, s, h) ==
    IF ~up
    THEN HelperResult(tbl, nxt, Raised, NoRec)
    ELSE LET row == MonsterRow(mid, n, t, s, h)
         IN  HelperResult({r \in tbl : r.id # mid} \cup {row}, nxt, RetRec, row)

\* UPDATE monsters SET ... WHERE id = :mid RETURNING ...
update_monster(up, tbl, nxt, mid, n, t, s, h) ==
    IF ~up
    THEN HelperResult(tbl, nxt, Raised, NoRec)
    ELSE IF mid \notin Ids(tbl)
    THEN HelperResult(tbl, nxt, RetNone, NoRec)
    ELSE LET row == MonsterRow(mid, n, t, s, h)
         IN  HelperResult({r \in tbl : r.id # mid} \cup {row}, nxt, RetRec, row)

\* delete_monster without its WHERE clause: every row goes, the first is returned
delete_monster_all(up, tbl, nxt, mid) ==
    IF ~up
    THEN HelperResult(tbl, nxt, Raised, NoRec)
    ELSE IF tbl = {}
    THEN HelperResult(tbl, nxt, RetNone, NoRec)
    ELSE LET row == CHOOSE r \in tbl : \A q \in tbl : r.id <= q.id
         IN  HelperResult({}, nxt, RetRec, row)

\* DELETE FROM monsters WHERE id = :mid RETURNING ...
delete_monster(up, tbl, nxt, mid) ==
    IF ~up
    THEN HelperResult(tbl, nxt, Raised, NoRec)
    ELSE IF mid \notin Ids(tbl)
    THEN HelperResult(tbl, nxt, RetNone, NoRec)
    ELSE LET row == CHOOSE r \in tbl : r.id = mid
         IN  HelperResult(tbl \ {row}, nxt, RetRec, row)

\* `if rec: st.session_state.<key> = rec; st.rerun()`
StoreFlash(s, key, res) ==
    IF res.out = RetRec
    THEN session_state' = [session_state EXCEPT ![s][key] = res.rec]
    ELSE UNCHANGED session_state

\* the run ends (to its last line, by st.rerun() or by an exception)
EndRun(s) ==
    /\ pc' = [pc EXCEPT ![s] = "top"]
    /\ view' = [view EXCEPT ![s] = {}]

EndAppRun(s) ==
    /\ EndRun(s)
    /\ housesView' = [housesView EXCEPT ![s] = {}]

\* lines 88-112: houses tab, flash messages shown and cleared, monsters fetched
RenderTop(s, up) ==
    /\ Running(App)
    /\ pc[s] = "top"
    /\ \E lim \in RowLimits :
          view' = [view EXCEPT ![s] = Ids(fetch_monsters(up, monsters, lim))]
    /\ housesView' = [housesView EXCEPT ![s] = fetch_houses(up)]
    /\ session_state' = [session_state EXCEPT ![s] = [k \in FlashKeys |-> NoRec]]
    /\ pc' = [pc EXCEPT ![s] = "forms"]
    /\ ret' = NoCall
    /\ UNCHANGED <<monsters, nextId, dbVars>>

\* lines 114-193 with no button pressed
NoPress(s) ==
    /\ Running(App)
    /\ pc[s] = "forms"
    /\ ret' = NoCall
    /\ EndAppRun(s)
    /\ UNCHANGED <<monsters, nextId, session_state, dbVars>>

\* lines 116-131: the insert form is submitted
InsertPress(s, f, hid, up) ==
    /\ Running(App)
    /\ pc[s] = "forms"
    /\ hid = (IF f.house \in housesView[s] THEN f.house ELSE NoHouse)
    /\ IF ~Truthy(strip(f.name))
       THEN /\ ret' = Outcome("insert_monster", Warned)   \* "Name is required."
            /\ UNCHANGED <<monsters, nextId, session_state>>
       ELSE IF hid = NoHouse
       THEN /\ ret' = Outcome("insert_monster", TypeError) \* int(None) raises
            /\ UNCHANGED <<monsters, nextId, session_state>>
       ELSE LET res == insert_monster(up, monsters, nextId, strip(f.name),
                                      OrNone(strip(f.mtype)), f.scare, hid)
            IN  /\ up => nextId <= MaxId
                /\ monsters' = res.tbl
                /\ nextId' = res.nxt
                /\ ret' = Outcome("insert_monster", res.out)
                /\ StoreFlash(s, "just_inserted", res)
    /\ EndAppRun(s)
    /\ UNCHANGED dbVars

\* lines 142-156: the update form is submitted for the selected monster
UpdatePress(s, mid, f, hid, up) ==
    /\ Running(App)
    /\ pc[s] = "forms"
    /\ mid \in view[s]
    /\ hid = f.house
    /\ hid \in housesView[s]
    /\ LET res == update_monster(up, monsters, nextId, mid, strip(f.name),
                                 OrNone(strip(f.mtype)), f.scare, hid)
       IN  /\ monsters' = res.tbl
           /\ nextId' = res.nxt
           /\ ret' = Outcome("update_monster", res.out)
           /\ StoreFlash(s, "just_updated", res)
    /\ EndAppRun(s)
    /\ UNCHANGED dbVars

\* DeletePress without the test of the confirmation checkbox
DeletePress_unchecked(s, mid, confirm, up) ==
    /\ Running(App)
    /\ pc[s] = "forms"
    /\ mid \in view[s]
    /\ LET res == delete_monster(up, monsters, nextId, mid)
       IN  /\ monsters' = res.tbl
           /\ nextId' = res.nxt
           /\ ret' = Outcome("delete_monster", res.out)
           /\ StoreFlash(s, "just_deleted", res)
    /\ EndAppRun(s)
    /\ UNCHANGED dbVars

\* lines 160-178: "Delete selected" is pressed
DeletePress(s, mid, confirm, up) ==
    /\ Running(App)
    /\ pc[s] = "forms"
    /\ mid \in view[s]
    /\ IF ~confirm
       THEN /\ ret' = Outcome("delete_monster", Warned)   \* "Please confirm ..."
            /\ UNCHANGED <<monsters, nextId, session_state>>
       ELSE LET res == delete_monster(up, monsters, nextId, mid)
            IN  /\ monsters' = res.tbl
                /\ nextId' = res.nxt
                /\ ret' = Outcome("delete_monster", res.out)
                /\ StoreFlash(s, "just_deleted", res)
    /\ EndAppRun(s)
    /\ UNCHANGED dbVars

InitVars ==
    /\ ret = NoCall
    /\ monsters = {}
    /\ nextId = 1
    /\ pc = [s \in Sessions |-> "top"]
    /\ view = [s \in Sessions |-> {}]
    /\ housesView = [s \in Sessions |-> {}]
    /\ session_state = [s \in Sessions |-> [k \in FlashKeys |-> NoRec]]
    /\ ptms = {}
    /\ drugs = {}
    /\ ptmdataset = {}
    /\ ptm_correlation_matrix = {}
    /\ ptm = [s \in Sessions |-> <<>>]

InitApp ==
    /\ script = App
    /\ InitVars
    /\ InitStart

NextApp ==
    \/ \E s \in Sessions, up \in BOOLEAN : RenderTop(s, up)
    \/ \E s \in Sessions : NoPress(s)
    \/ \E s \in Sessions, f \in MonsterForms, hid \in haunted_houses \cup {NoHouse},
          up \in BOOLEAN : InsertPress(s, f, hid, up)
    \/ \E s \in Sessions, mid \in 1..(MaxId + 1), f \in MonsterForms,
          hid \in haunted_houses, up \in BOOLEAN : UpdatePress(s, mid, f, hid, up)
    \/ \E s \in Sessions, mid \in 1..(MaxId + 1), confirm \in BOOLEAN,
          up \in BOOLEAN : DeletePress(s, mid, confirm, up)

SpecApp == InitApp /\ [][NextApp]_vars

(***************************************************************************)
(* src/database.py                                                         *)
(***************************************************************************)

\* text submitted in the form "insert_form" (text input "ptm*")
PtmTexts == {<<>>, <<Sp>>, <<Sp, "a">>}

\* text submitted in the form "update_form" (text input "ptm")
PtmNewNames == {<<>>, <<"a">>}

\* text submitted in the form "insert_form2" (text input "drug*")
DrugTexts == {<<>>, <<Sp, "x">>}

\* text submitted in the form "update_form2" (text input "drug")
DrugNewNames == {<<>>, <<"x">>}

\* every name a row of ptms / drugs can hold with these inputs
PtmNames == {strip(t) : t \in PtmTexts} \cup PtmNewNames

DrugNames == {strip(t) : t \in DrugTexts} \cup DrugNewNames

\* a helper raised on a key that is already in the table (ptm and drug are
\* the keys of their tables)
RaisedIntegrity == "raised_integrity"

\* INSERT INTO ptms(ptm) VALUES (:n) RETURNING ptm
insert_ptm(up, tbl, n) ==
    IF ~up
    THEN HelperResult(tbl, 0, Raised, NoRec)
    ELSE IF n \in tbl
    THEN HelperResult(tbl, 0, RaisedIntegrity, NoRec)
    ELSE HelperResult(tbl \cup {n}, 0, RetRec, [ptm |-> n])

\* UPDATE ptms SET ptm = :n WHERE ptm = :c RETURNING ptm
update_ptm(up, tbl, c, n) ==
    IF ~up
    THEN HelperResult(tbl, 0, Raised, NoRec)
    ELSE IF c \notin tbl
    THEN HelperResult(tbl, 0, RetNone, NoRec)
    ELSE IF n # c /\ n \in tbl
    THEN HelperResult(tbl, 0, RaisedIntegrity, NoRec)
    ELSE HelperResult((tbl \ {c}) \cup {n}, 0, RetRec, [ptm |-> n])

\* DELETE FROM ptms WHERE ptm = :mid RETURNING ptm
delete_ptm(up, tbl, mid) ==
    IF ~up
    THEN HelperResult(tbl, 0, Raised, NoRec)
    ELSE IF mid \notin tbl
    THEN HelperResult(tbl, 0, RetNone, NoRec)
    ELSE HelperResult(tbl \ {mid}, 0, RetRec, [ptm |-> mid])

\* INSERT INTO drugs(drug) VALUES (:n) RETURNING drug
insert_drug(up, tbl, n) ==
    IF ~up
    THEN HelperResult(tbl, 0, Raised, NoRec)
    ELSE IF n \in tbl
    THEN HelperResult(tbl, 0, RaisedIntegrity, NoRec)
    ELSE HelperResult(tbl \cup {n}, 0, RetRec, [drug |-> n])

\* UPDATE drugs SET drug = :n WHERE drug = :c RETURNING drug
update_drug(up, tbl, c, n) ==
    IF ~up
    THEN HelperResult(tbl, 0, Raised, NoRec)
    ELSE IF c \notin tbl
    THEN HelperResult(tbl, 0, RetNone, NoRec)
    ELSE IF n # c /\ n \in tbl
    THEN HelperResult(tbl, 0, RaisedIntegrity, NoRec)
    ELSE HelperResult((tbl \ {c}) \cup {n}, 0, RetRec, [drug |-> n])

\* DELETE FROM drugs WHERE drug = :mid RETURNING drug
delete_drug(up, tbl, mid) ==
    IF ~up
    THEN HelperResult(tbl, 0, Raised, NoRec)
    ELSE IF mid \notin tbl
    THEN HelperResult(tbl, 0, RetNone, NoRec)
    ELSE HelperResult(tbl \ {mid}, 0, RetRec, [drug |-> mid])

(***************************************************************************)
(* Numbers.  A reaction_score is kept as its numerator over RandomRes; a   *)
(* spearman_score is kept as the fraction <<n, d>> in lowest terms (IEEE   *)
(* division is correctly rounded, so the float is a function of it).       *)
(***************************************************************************)
Min(a, b) == IF a <= b THEN a ELSE b

Max(a, b) == IF a >= b THEN a ELSE b

RECURSIVE Gcd(_, _)
Gcd(a, b) == IF b = 0 THEN a ELSE Gcd(b, a % b)

\* random.uniform(a, b) = a + (b - a) * random.random(), random() = k / RandomRes
uniform(a, b, k) == a * RandomRes + (b - a) * k

\* the values k of random.random() * RandomRes
RandomRange == 0..(RandomRes - 1)

\* The draws of one run of tab2, a value for every (ptm, drug) pair.
AllDraws(P, D) == [P \X D -> RandomRange]

\* The draws followed in the page runs of the forms: every pair draws the
\* least value, or every pair draws the greatest (SpecDerive follows all).
PageDraws(P, D) == {[pr \in P \X D |-> k] : k \in {0, RandomRes - 1}}

\* min(s1, s2) / max(s1, s2) on floats; 0.0 / 0.0 raises ZeroDivisionError
ZeroDivisionError == <<0, 0>>

Ratio(s1, s2) ==
    LET n == Min(s1, s2)
        d == Max(s1, s2)
    IN  IF d = 0 THEN ZeroDivisionError ELSE <<n \div Gcd(d, n), d \div Gcd(d, n)>>

(***************************************************************************)
(* tab3, lines 313-337: the correlation matrix                             *)
(***************************************************************************)

\* the outcome of the nested loop: the rows appended so far, or the error
LoopResult(err, rows) == [err |-> err, rows |-> rows]

\* lines 320-330: for i in range(len): for j in range(len): append.
\* rs is the DataFrame reaction_score, a sequence of <<ptm, sum>> rows.
RECURSIVE CorrelationLoop(_, _, _, _)
CorrelationLoop(rs, i, j, acc) ==
    IF i > Len(rs) THEN LoopResult(FALSE, acc)
    ELSE IF j > Len(rs) THEN CorrelationLoop(rs, i + 1, 1, acc)
    ELSE LET p1 == rs[i][1]
             p2 == rs[j][1]
             s1 == rs[i][2]
             s2 == rs[j][2]
             v  == Ratio(s1, s2)
         IN  IF v = ZeroDivisionError
             THEN LoopResult(TRUE, acc)
             ELSE CorrelationLoop(rs, i, j + 1,
                      Append(acc, [ptm1 |-> p1, ptm2 |-> p2, spearman_score |-> v]))

\* lines 316-333: the DataFrame ptm_correlation_matrix built from reaction_score
CorrelationMatrix(rs) == CorrelationLoop(rs, 1, 1, <<>>)

Range(f) == {f[i] : i \in DOMAIN f}

\* SELECT ptm, SUM(reaction_score) FROM PTMdataset GROUP BY ptm
RECURSIVE SumScores(_)
SumScores(rows) ==
    IF rows = {} THEN 0
    ELSE LET r == CHOOSE x \in rows : TRUE
         IN  r.reaction_score + SumScores(rows \ {r})

RECURSIVE GroupBy(_, _)
GroupBy(ds, keys) ==
    IF keys = {} THEN <<>>
    ELSE LET p == CHOOSE x \in keys : TRUE
         IN  <<<<p, SumScores({r \in ds : r.ptm = p})>>>> \o GroupBy(ds, keys \ {p})

fetch_reaction_score(ds) == GroupBy(ds, {r.ptm : r \in ds})

(***************************************************************************)
(* tab2, lines 288-304: the cross join with random scores                  *)
(***************************************************************************)

\* pd.merge(ptms, drugs, on='key') with reaction_score[r] = uniform(0, 10)
CrossJoin(P, D, k) ==
    {[ptm |-> p, drug |-> d, reaction_score |-> uniform(0, 10, k[p, d])] :
        p \in P, d \in D}

\* to_sql with if_exists='append'
to_sql_append(old, rows) == old \cup rows

\* DataFrame.to_sql(name, conn, if_exists='replace'): the table is dropped
\* and holds the rows of the DataFrame
to_sql(old, rows) == rows

\* Lines 284-340, the rest of every run that reaches them: ptmdataset is
\* rewritten from ptms x drugs, then ptm_correlation_matrix from ptmdataset.
\* rd: the fetches of the two tabs succeed (fetch_df gives an empty frame
\* otherwise, and the frames built from it are written all the same);
\* wr: engine.connect() and to_sql succeed (the first to_sql raises otherwise
\* and the run ends).  A ZeroDivisionError in the loop ends the run before
\* the second to_sql.  every: all draws of random.uniform are followed.
Derive(rd, wr, every) ==
    IF ~wr
    THEN UNCHANGED <<ptmdataset, ptm_correlation_matrix>>
    ELSE LET P == fetch_df(rd, ptms)
             D == fetch_df(rd, drugs)
         IN  \E k \in (IF every THEN AllDraws(P, D) ELSE PageDraws(P, D)) :
               LET ds == to_sql(ptmdataset, CrossJoin(P, D, k))
                   m  == CorrelationMatrix(IF rd THEN fetch_reaction_score(ds) ELSE <<>>)
               IN  /\ ptmdataset' = ds
                   /\ ptm_correlation_matrix' =
                          IF m.err THEN ptm_correlation_matrix
                          ELSE to_sql(ptm_correlation_matrix, Range(m.rows))

\* a record held by a flash key of database.py.  The script never reads the
\* three keys (nor clears them), so the model keeps that a key holds a
\* record and not which.
SomeRec == [id |-> 1]

\* `if rec: st.session_state.<key> = rec; st.rerun()`
StoreFlashDb(s, key, res) ==
    IF res.out = RetRec
    THEN session_state' = [session_state EXCEPT ![s][key] = SomeRec]
    ELSE UNCHANGED session_state

\* after a handler: the run goes on to tab2 and tab3 only when the handler
\* neither raised nor called st.rerun()
AfterHandler(out) ==
    IF out \in {Warned, RetNone}
    THEN \E rd \in BOOLEAN, wr \in BOOLEAN : Derive(rd, wr, FALSE)
    ELSE UNCHANGED <<ptmdataset, ptm_correlation_matrix>>

\* lines 152-172 with "Insert" of insert_form pressed
InsertPtmPress(s, txt, up) ==
    /\ Running(Db)
    /\ pc[s] = "top"
    /\ ptm' = [ptm EXCEPT ![s] = txt]
    /\ LET res == IF ~Truthy(strip(txt))
                  THEN HelperResult(ptms, 0, Warned, NoRec)   \* st.warning
                  ELSE insert_ptm(up, ptms, strip(txt))
       IN  /\ ptms' = res.tbl
           /\ ret' = Outcome("insert_ptm", res.out)
           /\ StoreFlashDb(s, "just_inserted", res)
           /\ AfterHandler(res.out)
    /\ EndRun(s)
    /\ UNCHANGED <<drugs, appVars>>

\* lines 152-174 with that button not pressed: ptms is fetched
RenderInput(s, up) ==
    /\ Running(Db)
    /\ pc[s] = "top"
    /\ view' = [view EXCEPT ![s] = fetch_df(up, ptms)]
    /\ pc' = [pc EXCEPT ![s] = "ptmforms"]
    /\ ret' = NoCall
    /\ UNCHANGED <<session_state, appVars, dbVars>>

\* lines 185-194: "Update" of update_form pressed
UpdatePtmPress(s, cur, new, up) ==
    /\ Running(Db)
    /\ pc[s] = "ptmforms"
    /\ cur \in view[s]
    /\ LET res == update_ptm(up, ptms, cur, new)
       IN  /\ ptms' = res.tbl
           /\ ret' = Outcome("update_ptm", res.out)
           /\ StoreFlashDb(s, "just_updated", res)
           /\ AfterHandler(res.out)
    /\ EndRun(s)
    /\ UNCHANGED <<drugs, ptm, appVars>>

\* lines 198-216: "Delete selected" (ptm) pressed
DeletePtmPress(s, mid, confirm, up) ==
    /\ Running(Db)
    /\ pc[s] = "ptmforms"
    /\ mid \in view[s]
    /\ LET res == IF ~confirm
                  THEN HelperResult(ptms, 0, Warned, NoRec)   \* st.warning
                  ELSE delete_ptm(up, ptms, mid)
       IN  /\ ptms' = res.tbl
           /\ ret' = Outcome("delete_ptm", res.out)
           /\ StoreFlashDb(s, "just_deleted", res)
           /\ AfterHandler(res.out)
    /\ EndRun(s)
    /\ UNCHANGED <<drugs, ptm, appVars>>

\* lines 226-237: "Insert" of insert_form2 pressed; line 231 tests `ptm`
InsertDrugPress(s, txt, up) ==
    /\ Running(Db)
    /\ pc[s] = "ptmforms"
    /\ LET res == IF ~Truthy(strip(ptm[s]))
                  THEN HelperResult(drugs, 0, Warned, NoRec)  \* st.warning
                  ELSE insert_drug(up, drugs, strip(txt))
       IN  /\ drugs' = res.tbl
           /\ ret' = Outcome("insert_drug", res.out)
           /\ StoreFlashDb(s, "just_inserted", res)
           /\ AfterHandler(res.out)
    /\ EndRun(s)
    /\ UNCHANGED <<ptms, ptm, appVars>>

\* lines 176-239 with no button pressed: drugs is fetched
RenderDrugs(s, up) ==
    /\ Running(Db)
    /\ pc[s] = "ptmforms"
    /\ view' = [view EXCEPT ![s] = fetch_df(up, drugs)]
    /\ pc' = [pc EXCEPT ![s] = "drugforms"]
    /\ UNCHANGED <<ret, session_state, appVars, dbVars>>

\* lines 250-259: "Update" of update_form2 pressed
UpdateDrugPress(s, cur, new, up) ==
    /\ Running(Db)
    /\ pc[s] = "drugforms"
    /\ cur \in view[s]
    /\ LET res == update_drug(up, drugs, cur, new)
       IN  /\ drugs' = res.tbl
           /\ ret' = Outcome("update_drug", res.out)
           /\ StoreFlashDb(s, "just_updated", res)
           /\ AfterHandler(res.out)
    /\ EndRun(s)
    /\ UNCHANGED <<ptms, ptm, appVars>>

\* lines 263-281: "Delete selected" (drug) pressed
DeleteDrugPress(s, mid, confirm, up) ==
    /\ Running(Db)
    /\ pc[s] = "drugforms"
    /\ mid \in view[s]
    /\ LET res == IF ~confirm
                  THEN HelperResult(drugs, 0, Warned, NoRec)  \* st.warning
                  ELSE delete_drug(up, drugs, mid)
       IN  /\ drugs' = res.tbl
           /\ ret' = Outcome("delete_drug", res.out)
           /\ StoreFlashDb(s, "just_deleted", res)
           /\ AfterHandler(res.out)
    /\ EndRun(s)
    /\ UNCHANGED <<ptms, ptm, appVars>>

\* lines 241-340 with no button pressed: the run ends with tab2 and tab3
RenderDerived(s, rd, wr) ==
    /\ Running(Db)
    /\ pc[s] = "drugforms"
    /\ ret' = NoCall
    /\ Derive(rd, wr, FALSE)
    /\ EndRun(s)
    /\ UNCHANGED <<session_state, ptms, drugs, ptm, appVars>>

\* another page session commits the DELETE of its own confirmed press
ConcurrentDeletePtm(mid) ==
    /\ Running(Db)
    /\ mid \in ptms
    /\ ptms' = delete_ptm(TRUE, ptms, mid).tbl
    /\ UNCHANGED <<ret, pc, view, session_state, appVars,
                   drugs, ptmdataset, ptm_correlation_matrix, ptm>>

ConcurrentDeleteDrug(mid) ==
    /\ Running(Db)
    /\ mid \in drugs
    /\ drugs' = delete_drug(TRUE, drugs, mid).tbl
    /\ UNCHANGED <<ret, pc, view, session_state, appVars,
                   ptms, ptmdataset, ptm_correlation_matrix, ptm>>

\* the page session of database.py that is followed step by step
DbSessions == {1}

InitDb ==
    /\ script = Db
    /\ InitVars
    /\ InitStart

NextDb ==
    \/ \E s \in DbSessions, txt \in PtmTexts, up \in BOOLEAN : InsertPtmPress(s, txt, up)
    \/ \E s \in DbSessions, up \in BOOLEAN : RenderInput(s, up)
    \/ \E s \in DbSessions, cur \in PtmNames, new \in PtmNewNames, up \in BOOLEAN :
          UpdatePtmPress(s, cur, new, up)
    \/ \E s \in DbSessions, mid \in PtmNames, confirm \in BOOLEAN, up \in BOOLEAN :
          DeletePtmPress(s, mid, confirm, up)
    \/ \E s \in DbSessions, txt \in DrugTexts, up \in BOOLEAN : InsertDrugPress(s, txt, up)
    \/ \E s \in DbSessions, up \in BOOLEAN : RenderDrugs(s, up)
    \/ \E s \in DbSessions, cur \in DrugNames, new \in DrugNewNames, up \in BOOLEAN :
          UpdateDrugPress(s, cur, new, up)
    \/ \E s \in DbSessions, mid \in DrugNames, confirm \in BOOLEAN, up \in BOOLEAN :
          DeleteDrugPress(s, mid, confirm, up)
    \/ \E s \in DbSessions, rd \in BOOLEAN, wr \in BOOLEAN : RenderDerived(s, rd, wr)
    \/ \E mid \in PtmNames : ConcurrentDeletePtm(mid)
    \/ \E mid \in DrugNames : ConcurrentDeleteDrug(mid)

SpecDb == InitDb /\ [][NextDb]_vars

\* either script, as deployed
Init == InitApp \/ InitDb

Next == NextApp \/ NextDb

Spec == Init /\ [][Next]_vars

(***************************************************************************)
(* The top of a run taken by itself, for every environment                 *)
(***************************************************************************)
InitConfig ==
    /\ script \in {App, Db}
    /\ InitVars
    /\ reaction_score = <<>>
    /\ InitPoolIdle
    /\ environ \in [EnvNames -> EnvValues \cup {None}]
    /\ stage = AtStart

SpecConfig == InitConfig /\ [][NextConfig]_vars

(***************************************************************************)
(* The pool taken by itself, for either script                             *)
(***************************************************************************)
InitPool ==
    /\ script \in {App, Db}
    /\ InitVars
    /\ reaction_score = <<>>
    /\ InitConfigured
    /\ InitPoolIdle

SpecPool == InitPool /\ [][NextPool]_vars

(***************************************************************************)
(* tab3 taken by itself, for every frame of summed scores                  *)
(***************************************************************************)
MaxKeys == 2              \* a frame reaction_score has up to MaxKeys rows

CorrKeys == {<<"A">>, <<"B">>, <<"C">>}

SummedScores == {0, 2, 4}

\* the frames of SELECT ptm, SUM(reaction_score) ... GROUP BY ptm: rows
\* <<ptm, sum>> in any order, no ptm twice
ScoreFrames ==
    {f \in UNION {[1..n -> CorrKeys \X SummedScores] : n \in 0..MaxKeys} :
        \A i \in DOMAIN f, j \in DOMAIN f : i # j => f[i][1] # f[j][1]}

Completed == "completed"

\* lines 316-337 on the frame fetched at line 314
CorrelationStep ==
    /\ Running(Db)
    /\ ret = NoCall
    /\ LET m == CorrelationMatrix(reaction_score)
       IN  /\ ret' = Outcome("tab3", IF m.err THEN Raised ELSE Completed)
           /\ ptm_correlation_matrix' =
                  IF m.err THEN ptm_correlation_matrix
                  ELSE to_sql(ptm_correlation_matrix, Range(m.rows))
    /\ UNCHANGED <<pc, view, session_state, appVars, ptms, drugs, ptmdataset, ptm>>

\* line 314 of a later run: the frame of another dataset
FetchScores ==
    /\ script = Db
    /\ ret # NoCall
    /\ reaction_score' \in ScoreFrames
    /\ ret' = NoCall
    /\ UNCHANGED <<script, pc, view, session_state, appVars, dbVars,
                   environ, stage, conn, waited>>

InitCorr ==
    /\ script = Db
    /\ InitVars
    /\ InitConfigured
    /\ InitPoolIdle
    /\ reaction_score \in ScoreFrames

NextCorr == CorrelationStep \/ FetchScores

SpecCorr == InitCorr /\ [][NextCorr]_vars

(***************************************************************************)
(* tab2 and tab3 taken by themselves, for all draws of random.uniform      *)
(***************************************************************************)
\* lines 284-340 of a run, whatever came before them
DatasetStep(rd, wr) ==
    /\ Running(Db)
    /\ Derive(rd, wr, TRUE)
    /\ ret' = Outcome("tab2", IF wr THEN Completed ELSE Raised)
    /\ UNCHANGED <<pc, view, session_state, appVars, ptms, drugs, ptm>>

InitDerive ==
    /\ script = Db
    /\ InitStart
    /\ ret = NoCall
    /\ monsters = {}
    /\ nextId = 1
    /\ pc = [s \in Sessions |-> "top"]
    /\ view = [s \in Sessions |-> {}]
    /\ housesView = [s \in Sessions |-> {}]
    /\ session_state = [s \in Sessions |-> [k \in FlashKeys |-> NoRec]]
    /\ ptms \in SUBSET PtmNames
    /\ drugs \in SUBSET DrugNames
    /\ ptmdataset = {}
    /\ ptm_correlation_matrix = {}
    /\ ptm = [s \in Sessions |-> <<>>]

NextDerive ==
    \/ \E rd \in BOOLEAN, wr \in BOOLEAN : DatasetStep(rd, wr)
    \/ \E mid \in PtmNames : ConcurrentDeletePtm(mid)
    \/ \E mid \in DrugNames : ConcurrentDeleteDrug(mid)

SpecDerive == InitDerive /\ [][NextDerive]_vars

(***************************************************************************)
(* The claims                                                              *)
(***************************************************************************)

\* the tables the forms write
sourceTables == <<monsters, ptms, drugs>>

\* every table a script writes
allTables == <<monsters, ptms, drugs, ptmdataset, ptm_correlation_matrix>>

\* a step in which a read helper runs while the database does not answer
FailedRead(s) ==
    \/ RenderTop(s, FALSE)
    \/ RenderInput(s, FALSE)
    \/ RenderDrugs(s, FALSE)

\* a step in which a form handler runs while the database does not answer
FailedHandler(s) ==
    \/ \E f \in MonsterForms, hid \in haunted_houses : InsertPress(s, f, hid, FALSE)
    \/ \E mid \in 1..(MaxId + 1), f \in MonsterForms, hid \in haunted_houses :
          UpdatePress(s, mid, f, hid, FALSE)
    \/ \E mid \in 1..(MaxId + 1) : DeletePress(s, mid, TRUE, FALSE)
    \/ \E txt \in PtmTexts : InsertPtmPress(s, txt, FALSE)
    \/ \E cur \in PtmNames, new \in PtmNewNames : UpdatePtmPress(s, cur, new, FALSE)
    \/ \E mid \in PtmNames : DeletePtmPress(s, mid, TRUE, FALSE)
    \/ \E txt \in DrugTexts : InsertDrugPress(s, txt, FALSE)
    \/ \E cur \in DrugNames, new \in DrugNewNames : UpdateDrugPress(s, cur, new, FALSE)
    \/ \E mid \in DrugNames : DeleteDrugPress(s, mid, TRUE, FALSE)

\* C1: on a connectivity failure every read helper returns an empty result
\* set, every write helper returns None instead of raising, and the tables
\* are unchanged.
C1_FailureYieldsEmptyOrNone ==
    [][\A s \in Sessions :
          /\ FailedRead(s) => view'[s] = {} /\ UNCHANGED sourceTables
          /\ (FailedHandler(s) /\ ret'.out \notin {Warned, TypeError})
                 => ret'.out = RetNone /\ UNCHANGED sourceTables]_vars

\* a step in which an insert form is submitted with its own name field
\* empty or whitespace-only
EmptyInsert(s) ==
    \/ \E f \in MonsterForms, hid \in haunted_houses \cup {NoHouse}, up \in BOOLEAN :
          ~Truthy(strip(f.name)) /\ InsertPress(s, f, hid, up)
    \/ \E txt \in PtmTexts, up \in BOOLEAN :
          ~Truthy(strip(txt)) /\ InsertPtmPress(s, txt, up)
    \/ \E txt \in DrugTexts, up \in BOOLEAN :
          ~Truthy(strip(txt)) /\ InsertDrugPress(s, txt, up)

\* C2: submitting an insert form whose own required name field is empty or
\* whitespace-only issues no INSERT and leaves monsters, ptms and drugs
\* unchanged, whatever the other widgets of the page hold.
C2_EmptyInsertNoMutation ==
    [][\A s \in Sessions :
          EmptyInsert(s) => ret'.out = Warned /\ UNCHANGED sourceTables]_vars

\* a step in which "Delete selected" is pressed with its checkbox unchecked
UnconfirmedDelete(s) ==
    \/ /\ ret'.op = "delete_monster"
       /\ \E mid \in 1..(MaxId + 1), up \in BOOLEAN : DeletePress(s, mid, FALSE, up)
    \/ /\ ret'.op = "delete_ptm"
       /\ \E mid \in PtmNames, up \in BOOLEAN : DeletePtmPress(s, mid, FALSE, up)
    \/ /\ ret'.op = "delete_drug"
       /\ \E mid \in DrugNames, up \in BOOLEAN : DeleteDrugPress(s, mid, FALSE, up)

\* a step that is a "Delete selected" press with the checkbox of that control
\* checked, in the session followed or (database.py) in another one
ConfirmedMonsterDelete ==
    \E s \in Sessions, mid \in 1..(MaxId + 1), up \in BOOLEAN : DeletePress(s, mid, TRUE, up)

ConfirmedPtmDelete ==
    \/ \E s \in Sessions, mid \in PtmNames, up \in BOOLEAN : DeletePtmPress(s, mid, TRUE, up)
    \/ \E mid \in PtmNames : ConcurrentDeletePtm(mid)

ConfirmedDrugDelete ==
    \/ \E s \in Sessions, mid \in DrugNames, up \in BOOLEAN : DeleteDrugPress(s, mid, TRUE, up)
    \/ \E mid \in DrugNames : ConcurrentDeleteDrug(mid)

\* a row leaves monsters, ptms or drugs only by a confirmed press on the
\* delete control of that table
RemovalOnlyConfirmed ==
    /\ ~(Ids(monsters) \subseteq Ids(monsters')) => ConfirmedMonsterDelete
    /\ Cardinality(ptms') < Cardinality(ptms) => ConfirmedPtmDelete
    /\ Cardinality(drugs') < Cardinality(drugs) => ConfirmedDrugDelete

\* C3 as claimed: an unconfirmed "Delete selected" issues no DELETE and
\* leaves every table unchanged, and rows are removed by confirmed presses only.
C3_UnconfirmedDeleteEveryTableUnchanged ==
    [][/\ \A s \in Sessions :
             UnconfirmedDelete(s) => ret'.out = Warned /\ UNCHANGED allTables
       /\ RemovalOnlyConfirmed]_vars

\* C3 as amended: an unconfirmed "Delete selected" issues no DELETE and leaves
\* monsters, ptms and drugs unchanged (the run of database.py goes on to
\* rebuild ptmdataset and ptm_correlation_matrix), and a row of monsters,
\* ptms or drugs is removed by confirmed presses only.
C3_UnconfirmedDeleteNoMutation ==
    [][/\ \A s \in Sessions :
             UnconfirmedDelete(s) => ret'.out = Warned /\ UNCHANGED sourceTables
       /\ RemovalOnlyConfirmed]_vars

\* an unconfirmed press on the ptm delete control has been handled, in a run
\* that went on to rebuild a non-empty ptmdataset
C3_Witness ==
    /\ ret = Outcome("delete_ptm", Warned)
    /\ ptmdataset # {}

\* a step in which an update form is submitted, the statement runs, and the
\* selected identifier is not (or no longer) in the table
AbsentUpdate(s) ==
    \/ /\ ret'.op = "update_monster"
       /\ \E mid \in (1..(MaxId + 1)) \ Ids(monsters) :
             \E f \in MonsterForms, hid \in haunted_houses :
                UpdatePress(s, mid, f, hid, TRUE)
    \/ /\ ret'.op = "update_ptm"
       /\ \E cur \in PtmNames \ ptms, new \in PtmNewNames :
             UpdatePtmPress(s, cur, new, TRUE)
    \/ /\ ret'.op = "update_drug"
       /\ \E cur \in DrugNames \ drugs, new \in DrugNewNames :
             UpdateDrugPress(s, cur, new, TRUE)

\* C4: an update on an identifier that is not in the table (one deleted by
\* another session since the selectbox was filled included) returns None,
\* leaves the table as it was and stores no flash record.
C4_UpdateAbsentNoRecord ==
    [][\A s \in Sessions :
          AbsentUpdate(s) => /\ ret'.out = RetNone
                             /\ UNCHANGED sourceTables
                             /\ session_state' = session_state]_vars

\* update_monster has returned None
C4_Witness == ret = Outcome("update_monster", RetNone)

\* a step in which a confirmed delete runs its statement on identifier mid
MonsterDelete(s, mid) == ret'.op = "delete_monster" /\ DeletePress(s, mid, TRUE, TRUE)

PtmDelete(s, mid) == ret'.op = "delete_ptm" /\ DeletePtmPress(s, mid, TRUE, TRUE)

DrugDelete(s, mid) == ret'.op = "delete_drug" /\ DeleteDrugPress(s, mid, TRUE, TRUE)

\* C5: a delete on an identifier that is not in the table returns None and
\* leaves the table as it was; a delete on one that is there removes that
\* row and no other, so the second of two deletes of an identifier is a no-op.
C5_DeleteAbsentNoRecord ==
    [][\A s \in Sessions :
          /\ \A mid \in 1..(MaxId + 1) :
                MonsterDelete(s, mid) =>
                    IF mid \in Ids(monsters)
                    THEN /\ ret'.out = RetRec
                         /\ monsters' = {r \in monsters : r.id # mid}
                    ELSE ret'.out = RetNone /\ UNCHANGED sourceTables
          /\ \A mid \in PtmNames :
                PtmDelete(s, mid) =>
                    IF mid \in ptms
                    THEN ret'.out = RetRec /\ ptms' = ptms \ {mid}
                    ELSE ret'.out = RetNone /\ UNCHANGED sourceTables
          /\ \A mid \in DrugNames :
                DrugDelete(s, mid) =>
                    IF mid \in drugs
                    THEN ret'.out = RetRec /\ drugs' = drugs \ {mid}
                    ELSE ret'.out = RetNone /\ UNCHANGED sourceTables]_vars

\* delete_monster has returned None
C5_Witness == ret = Outcome("delete_monster", RetNone)

\* a step in which the insert form is submitted with valid inputs and the
\* statement runs
ValidInsert(s, f, hid) ==
    /\ Truthy(strip(f.name))
    /\ f.scare \in 1..10
    /\ hid \in haunted_houses
    /\ InsertPress(s, f, hid, TRUE)

\* the rows the insert added are one row, which carries the inputs and an id
\* no row had, and the rows there before are still there as they were
OneFreshRow(f, hid) ==
    /\ monsters \subseteq monsters'
    /\ Cardinality(monsters' \ monsters) = 1
    /\ \A r \in monsters' \ monsters :
          /\ r.name = strip(f.name)
          /\ r.monster_type = OrNone(strip(f.mtype))
          /\ r.scare_level = f.scare
          /\ r.house_id = hid
          /\ r.id \notin Ids(monsters)

\* C6 as claimed: after insert_monster with valid inputs, fetch_monsters with
\* the current row limit returns exactly one row that was not there before,
\* carrying the inputs and a fresh id, and the earlier rows are unchanged.
C6_InsertThenSelectAnyState ==
    [][\A s \in Sessions, f \in MonsterForms, hid \in haunted_houses, lim \in RowLimits :
          ValidInsert(s, f, hid) =>
              /\ OneFreshRow(f, hid)
              /\ fetch_monsters(TRUE, monsters', lim) \ monsters = monsters' \ monsters]_vars

\* C6 as amended: insert_monster with valid inputs adds exactly one row,
\* carrying the inputs and a fresh id, and leaves the earlier rows unchanged;
\* fetch_monsters with the current row limit returns that row when the table
\* held fewer rows than the limit, and returns no new row otherwise.
C6_InsertThenSelect ==
    [][\A s \in Sessions, f \in MonsterForms, hid \in haunted_houses, lim \in RowLimits :
          ValidInsert(s, f, hid) =>
              /\ OneFreshRow(f, hid)
              /\ fetch_monsters(TRUE, monsters', lim) \ monsters =
                    IF Cardinality(monsters) < lim THEN monsters' \ monsters ELSE {}]_vars

\* insert_monster has added a row to a table that held one already
C6_Witness ==
    /\ ret = Outcome("insert_monster", RetRec)
    /\ Cardinality(monsters) = 2

\* the rows min/max gives for a frame: one for every ordered pair of its rows
PairRows(rs) ==
    {[ptm1 |-> rs[i][1], ptm2 |-> rs[j][1],
      spearman_score |-> Ratio(rs[i][2], rs[j][2])] : i \in DOMAIN rs, j \in DOMAIN rs}

\* C7: for every frame of k distinct keys with their summed scores, a zero
\* score included, the correlation step completes and leaves in
\* ptm_correlation_matrix exactly k*k rows, one for every ordered pair, with
\* value min/max: 1 on every self-pair, the same for (a, b) and (b, a), and
\* for {A: 2, B: 4} the rows (A,A,1), (B,B,1), (A,B,1/2), (B,A,1/2).
C7_PairwiseDerivation ==
    ret.op = "tab3" =>
        /\ ret.out = Completed
        /\ ptm_correlation_matrix = PairRows(reaction_score)
        /\ Cardinality(ptm_correlation_matrix) = Len(reaction_score) * Len(reaction_score)
        /\ \A r \in ptm_correlation_matrix :
              /\ r.ptm1 = r.ptm2 => r.spearman_score = <<1, 1>>
              /\ \E q \in ptm_correlation_matrix :
                    /\ q.ptm1 = r.ptm2
                    /\ q.ptm2 = r.ptm1
                    /\ q.spearman_score = r.spearman_score
        /\ reaction_score = <<<< <<"A">>, 2 >>, << <<"B">>, 4 >>>> =>
              ptm_correlation_matrix =
                  { [ptm1 |-> <<"A">>, ptm2 |-> <<"A">>, spearman_score |-> <<1, 1>>],
                    [ptm1 |-> <<"B">>, ptm2 |-> <<"B">>, spearman_score |-> <<1, 1>>],
                    [ptm1 |-> <<"A">>, ptm2 |-> <<"B">>, spearman_score |-> <<1, 2>>],
                    [ptm1 |-> <<"B">>, ptm2 |-> <<"A">>, spearman_score |-> <<1, 2>>] }

\* C8: after the dataset step on m ptms and n drugs, ptmdataset holds m*n
\* rows, exactly one for every (ptm, drug) pair of the source tables and none
\* for any other pair, each with 0 <= reaction_score < 10.
C8_CrossJoinDataset ==
    [][DatasetStep(TRUE, TRUE) =>
          /\ Cardinality(ptmdataset') = Cardinality(ptms) * Cardinality(drugs)
          /\ \A p \in ptms, d \in drugs :
                Cardinality({r \in ptmdataset' : r.ptm = p /\ r.drug = d}) = 1
          /\ \A r \in ptmdataset' :
                /\ r.ptm \in ptms
                /\ r.drug \in drugs
                /\ 0 <= r.reaction_score
                /\ r.reaction_score < 10 * RandomRes]_vars

\* the dataset step has rewritten ptmdataset for two ptms and two drugs
C8_Witness ==
    /\ ret = Outcome("tab2", Completed)
    /\ Cardinality(ptms) = 2
    /\ Cardinality(drugs) = 2
    /\ Cardinality(ptmdataset) = 4

\* what the pool does for a request, a wait and a timeout: a request made
\* when every slot is taken waits, and a wait ends in TimeoutError only
\* after pool_timeout seconds with every slot taken, opening no connection
PoolDiscipline ==
    \A s \in PoolSessions :
       /\ (Request(s) /\ Cardinality(Holders) = pool_size) => conn'[s] = Waiting
       /\ (conn[s] # TimeoutError /\ conn'[s] = TimeoutError) =>
              /\ conn[s] = Waiting
              /\ waited[s] = pool_timeout
              /\ Cardinality(Holders) = pool_size
              /\ Holders' = Holders

\* C9 as claimed: in both scripts, under any interleaving of page sessions,
\* no more than pool_size connections are held at once; a request made when
\* all slots are taken waits, and fails after pool_timeout rather than open
\* an extra connection.
C9_PoolCapEitherScript ==
    /\ [](Cardinality(Holders) <= pool_size)
    /\ [][PoolDiscipline]_vars

\* C9 as amended: in database.py (one cached engine, pool_size 5, no
\* overflow) no more than pool_size connections are held at once, a request
\* made when all slots are taken waits, and it fails after pool_timeout
\* rather than open an extra connection; in app_full_crud.py every run makes
\* an engine of its own, so no request waits or fails for want of a slot and
\* the connections held at once are as many as the sessions running.
C9_PoolCapDatabasePy ==
    /\ [](script = Db => Cardinality(Holders) <= pool_size)
    /\ [](script = App => \A s \in PoolSessions : conn[s] \in {Idle, Held})
    /\ [][script = Db => PoolDiscipline]_vars

\* in database.py a request has timed out with all five slots taken
C9_Witness ==
    /\ script = Db
    /\ Cardinality(Holders) = pool_size
    /\ \E s \in PoolSessions : conn[s] = TimeoutError

\* C10: in both scripts, when any of PGDATABASE, PGUSER, PGPASSWORD is unset
\* the run stops at the credentials test, before an engine exists and before
\* any statement; an unset PGHOST, PGPORT or PGSSLMODE takes its default and
\* halts nothing.
C10_MissingConfigHalts ==
    /\ (\E k \in Required : environ[k] = None) => stage \in {AtStart, Stopped}
    /\ stage = Stopped => \E k \in Required : ~Truthy(environ[k])
    /\ environ["PGHOST"] = None => PGHOST = <<"localhost">>
    /\ environ["PGPORT"] = None => PGPORT = <<"5", "4", "3", "2">>
    /\ environ["PGSSLMODE"] = None => PGSSLMODE = <<"require">>
    /\ (environ["PGPORT"] = None /\ \A k \in Required : Truthy(environ[k]))
           => stage \notin {Stopped, ValueError}

\* a run has stopped at the credentials test with PGUSER unset
C10_Witness ==
    /\ stage = Stopped
    /\ environ["PGUSER"] = None
    /\ environ["PGDATABASE"] # None
    /\ environ["PGPASSWORD"] # None

\* a step in which an update form is submitted with its name field empty or
\* whitespace-only, the database answering
EmptyUpdate(s) ==
    \/ /\ ret'.op = "update_monster"
       /\ \E mid \in 1..(MaxId + 1), f \in MonsterForms, hid \in haunted_houses :
             ~Truthy(strip(f.name)) /\ UpdatePress(s, mid, f, hid, TRUE)
    \/ /\ ret'.op = "update_ptm"
       /\ \E cur \in PtmNames, new \in PtmNewNames :
             ~Truthy(strip(new)) /\ UpdatePtmPress(s, cur, new, TRUE)
    \/ /\ ret'.op = "update_drug"
       /\ \E cur \in DrugNames, new \in DrugNewNames :
             ~Truthy(strip(new)) /\ UpdateDrugPress(s, cur, new, TRUE)

\* no row of monsters, ptms or drugs has an empty name
NoEmptyName ==
    /\ \A r \in monsters : Truthy(r.name)
    /\ \A n \in ptms : Truthy(n)
    /\ \A n \in drugs : Truthy(n)

\* C11: an update form (monster, PTM, drug) submitted with its name field
\* empty or whitespace-only is refused with a warning before any statement:
\* no UPDATE is issued, monsters, ptms and drugs are unchanged, and tables
\* without an empty name stay without one.
C11_EmptyUpdateRefused ==
    [][\A s \in Sessions :
          EmptyUpdate(s) => /\ ret'.out = Warned
                            /\ UNCHANGED sourceTables
                            /\ NoEmptyName => NoEmptyName']_vars

====
